---- MODULE Spec2Model ----
(***************************************************************************)
(* Order service of ordenes-ecom: the order-creation saga                  *)
(* (createOrderHandler), the status transition handler                     *)
(* (updateOrderStatusHandler), the catalog client (Ext.FetchProduct,       *)
(* Ext.AdjustStock), the product service's PUT /products/{id} and the      *)
(* order repository.                                                       *)
(*                                                                         *)
(* A handler is a sequence of steps, one per call to a collaborator: a     *)
(* step is the call, its answer, and the handler's own code up to the next *)
(* call.  Ext.AdjustStock is two calls (GET, then PUT of the new absolute  *)
(* stock) and so two steps.                                                *)
(*                                                                         *)
(* Money is counted in thousandths (mills): "15.00" is 15000.  The catalog *)
(* column is NUMERIC(10,2), so a catalog price is a multiple of 10 mills.  *)
(***************************************************************************)
EXTENDS Integers, Sequences, FiniteSets, TLC

(* ------------------------------ bounds -------------------------------- *)

MaxItems == 2
MaxQty == 2
InitStock == 2
StockCap == 4
MaxOrders == 1
MaxEnvEvents == 2
MaxStockCalls == 2
NumWorkers == 2

(* ------------------------------ domains ------------------------------- *)

Workers == 1..NumWorkers
Products == {"P1", "P2"}
KnownUsers == {"U1"}
UserIDs == {"", "U1", "U2"}
ItemProductIDs == Products \cup {"", "P9"}
Quantities == 0..MaxQty
Prices == {10000, 15000}
BadPrice == 0 - 1

ReqItem == [ProductID : ItemProductIDs, Quantity : Quantities]

RECURSIVE SeqsUpTo(_, _)
SeqsUpTo(S, n) ==
    IF n = 0 THEN {<<>>}
    ELSE LET shorter == SeqsUpTo(S, n - 1)
         IN  shorter \cup {Append(s, x) : s \in {t \in shorter : Len(t) = n - 1}, x \in S}

ItemLists == SeqsUpTo(ReqItem, MaxItems)
OrderIDs == 1..(MaxOrders + 1)

(* ----------------------- status text: trim, fold ---------------------- *)

Spell ==
    [pending  |-> <<"p", "e", "n", "d", "i", "n", "g">>,
     paid     |-> <<"p", "a", "i", "d">>,
     canceled |-> <<"c", "a", "n", "c", "e", "l", "e", "d">>]

StatusTexts ==
    {Spell.pending, Spell.paid, Spell.canceled,
     <<" ", "P", "A", "I", "D">>,
     <<"C", "a", "n", "c", "e", "l", "e", "d", " ">>,
     <<"w", "t", "f">>,
     <<>>}

IsSpace(c) == c \in {" ", "\t", "\n"}

UpperToLower ==
    [A |-> "a", C |-> "c", D |-> "d", E |-> "e", G |-> "g", I |-> "i",
     L |-> "l", N |-> "n", P |-> "p"]

LowerChar(c) == IF c \in DOMAIN UpperToLower THEN UpperToLower[c] ELSE c

RECURSIVE TrimLeft(_)
TrimLeft(s) ==
    IF s # <<>> /\ IsSpace(Head(s)) THEN TrimLeft(Tail(s)) ELSE s

RECURSIVE TrimRight(_)
TrimRight(s) ==
    IF s # <<>> /\ IsSpace(s[Len(s)]) THEN TrimRight(SubSeq(s, 1, Len(s) - 1)) ELSE s

TrimSpace(s) == TrimRight(TrimLeft(s))

ToLower(s) == [k \in 1..Len(s) |-> LowerChar(s[k])]

NormalizeStatus(text) == ToLower(TrimSpace(text))

\* Variant: every status text is allowed.
Allowed_Anything(newStatus) == TRUE

Allowed(newStatus) == \E name \in DOMAIN Spell : Spell[name] = newStatus

\* The status as the tables store it; "other" is any text outside the set.
StatusName(newStatus) ==
    IF \E name \in DOMAIN Spell : Spell[name] = newStatus
    THEN CHOOSE name \in DOMAIN Spell : Spell[name] = newStatus
    ELSE "other"

(* ------------------------------ decimals ------------------------------ *)

\* decimal.StringFixed(2): round half away from zero at the cent (10 mills).
StringFixed2(m) ==
    IF m >= 0 THEN ((m + 5) \div 10) * 10 ELSE 0 - (((0 - m) + 5) \div 10) * 10

\* decimal.NewFromString: the text parses unless it is not a number.
ParsesAsDecimal(text) == text # BadPrice

(* ------------------- product service: GET / PUT ----------------------- *)

\* GET /products/{id}: the stored row, or 404.
GetProduct(cat, id) ==
    IF id \in DOMAIN cat
    THEN [status |-> 200, Price |-> cat[id].price, Stock |-> cat[id].stock]
    ELSE [status |-> 404, Price |-> BadPrice, Stock |-> 0]

\* Variant: the statement that sets the price is run whatever updatePrice.
RepoUpdate_AlwaysPrice(cat, id, name, description, price, stock, updatePrice) ==
    IF id \notin DOMAIN cat THEN [err |-> FALSE, cat |-> cat]
    ELSE IF stock < 0 THEN [err |-> TRUE, cat |-> cat]
    ELSE [err |-> FALSE,
          cat |-> [cat EXCEPT ![id].name = IF name # "" THEN name ELSE @,
                              ![id].description = IF description # "" THEN description ELSE @,
                              ![id].price = StringFixed2(price),
                              ![id].stock = stock]]

\* PGRepo.Update: UPDATE ... SET name = COALESCE(NULLIF($2,''), name),
\* description = COALESCE(NULLIF($3,''), description), price = $4 (when
\* updatePrice), stock = $5 WHERE id = $1; the CHECK (stock >= 0) constraint
\* fails the statement.  No row matching is no error.
RepoUpdate(cat, id, name, description, price, stock, updatePrice) ==
    IF id \notin DOMAIN cat THEN [err |-> FALSE, cat |-> cat]
    ELSE IF stock < 0 THEN [err |-> TRUE, cat |-> cat]
    ELSE [err |-> FALSE,
          cat |-> [cat EXCEPT ![id].name = IF name # "" THEN name ELSE @,
                              ![id].description = IF description # "" THEN description ELSE @,
                              ![id].price = IF updatePrice THEN StringFixed2(price) ELSE @,
                              ![id].stock = stock]]

\* c.BindJSON into UpdateProductRequest: a field the body leaves out has
\* Go's zero value, "" for name, description and price (price 0 here), 0
\* for stock.
BindUpdate(body) ==
    [Name  |-> IF "name" \in DOMAIN body THEN body.name ELSE "",
     Description |-> IF "description" \in DOMAIN body THEN body.description ELSE "",
     Price |-> IF "price" \in DOMAIN body THEN body.price ELSE 0,
     Stock |-> IF "stock" \in DOMAIN body THEN body.stock ELSE 0]

\* PUT /products/{id} with a JSON body.
UpdateProduct(cat, id, body) ==
    LET in == BindUpdate(body)
        upd == RepoUpdate(cat, id, in.Name, in.Description, in.Price, in.Stock, in.Price # 0)
    IN  IF upd.err THEN [status |-> 500, cat |-> cat]
        ELSE [status |-> GetProduct(upd.cat, id).status, cat |-> upd.cat]

(* ------------------------------- state -------------------------------- *)

VARIABLES
    catalog,    \* products table: id -> [name, description, price, stock]
    orders,     \* orders table with each order's items; an order's id is its index
    pc,         \* per request slot: the call the handler issues next
    req,        \* per request slot: the request being served
    loc,        \* per request slot: the handler's local variables
    resp,       \* per request slot: the response written
    calls,      \* per request slot: the collaborator calls completed so far (history)
    envEvents   \* collaborator failures and repricings so far (history, bounded)

vars == <<catalog, orders, pc, req, loc, resp, calls, envEvents>>

NoOrder == [UserID |-> "", Status |-> "none", Total |-> 0, Items |-> <<>>]
NoReq ==
    [op |-> "none", UserID |-> "", Items |-> <<>>, OrderID |-> 0, Status |-> <<>>,
     ProductID |-> "", Body |-> <<>>]
NoResp == [code |-> 0, error |-> "", at |-> "", order |-> NoOrder]
NoLoc ==
    [i |-> 0, total |-> 0, priceByProduct |-> <<>>, toRollback |-> <<>>, rb |-> 0,
     phase |-> "none", newStock |-> 0, after |-> NoResp, orderID |-> 0,
     o |-> NoOrder, newStatus |-> "none",
     stock0 |-> [p \in Products |-> 0], status0 |-> <<>>, env0 |-> 0,
     lookup |-> "none", cat0 |-> <<>>, fetched |-> <<>>, reads |-> <<>>]

Resp(code, error, at) == [code |-> code, error |-> error, at |-> at, order |-> NoOrder]
RespOrder(code, order) == [code |-> code, error |-> "", at |-> "", order |-> order]

\* A completed call: err is the error the caller was given ("" is nil), ok
\* whether the call did what the caller asked, applied whether the catalog
\* took the write.
Call(op, id, delta, ok, applied, err) ==
    [op |-> op, id |-> id, delta |-> delta, ok |-> ok, applied |-> applied, err |-> err]

StockOf(cat) == [p \in Products |-> cat[p].stock]
StatusesOf(os) == [k \in 1..Len(os) |-> os[k].Status]

\* The seeded catalog: products differ in price and in stock.
InitPrice(p) == IF p = "P1" THEN 10000 ELSE 15000
InitStockOf(p) == IF p = "P1" THEN InitStock ELSE InitStock - 1
InitName(p) == IF p = "P1" THEN "Mouse Pro" ELSE "Headset"
InitDescription(p) == IF p = "P1" THEN "Inalambrico" ELSE "Over-ear"

Init ==
    /\ catalog = [p \in Products |->
                      [name |-> InitName(p), description |-> InitDescription(p),
                       price |-> InitPrice(p), stock |-> InitStockOf(p)]]
    /\ orders = <<>>
    /\ pc = [w \in Workers |-> "idle"]
    /\ req = [w \in Workers |-> NoReq]
    /\ loc = [w \in Workers |-> NoLoc]
    /\ resp = [w \in Workers |-> NoResp]
    /\ calls = [w \in Workers |-> <<>>]
    /\ envEvents = 0

(* -------------------------- control transfer -------------------------- *)

Done(l, r) == [pc |-> "done", loc |-> l, resp |-> r]
Goto(next, l) == [pc |-> next, loc |-> l, resp |-> NoResp]

\* Every step ends by moving slot w to the control state ctl, logging the
\* completed calls and counting the failure injected into the call, if any.
Move(w, ctl, logged, failed) ==
    /\ pc' = [pc EXCEPT ![w] = ctl.pc]
    /\ loc' = [loc EXCEPT ![w] = ctl.loc]
    /\ resp' = [resp EXCEPT ![w] = ctl.resp]
    /\ calls' = [calls EXCEPT ![w] = @ \o logged]
    /\ envEvents' = IF failed THEN envEvents + 1 ELSE envEvents

MayInject(out) == out = "ok" \/ envEvents < MaxEnvEvents

(* ------------------------- createOrderHandler ------------------------- *)

\* Variant: the loop is left for the repository write after its first item.
NextItem_PersistEarly(rq, l) ==
    IF l.i > 1 THEN Goto("create", l)
    ELSE IF rq.Items[l.i].ProductID = "" \/ rq.Items[l.i].Quantity <= 0
    THEN Done(l, Resp(400, "invalid item", "item"))
    ELSE Goto("fetch", l)

\* The head of the item loop and what follows the loop: the next item is
\* checked, then fetched; after the last item the order is persisted.
NextItem(rq, l) ==
    IF l.i > Len(rq.Items) THEN Goto("create", l)
    ELSE IF rq.Items[l.i].ProductID = "" \/ rq.Items[l.i].Quantity <= 0
    THEN Done(l, Resp(400, "invalid item", "item"))
    ELSE Goto("fetch", l)

\* Variant: the error is answered at once, nothing is compensated.
StartRollback_NoUndo(l, after) == Done(l, after)

\* for i := len(toRollback) - 1; i >= 0; i-- { _ = ext.AdjustStock(+Qty) },
\* then the response `after`.
StartRollback(l, after) ==
    IF l.toRollback = <<>> THEN Done(l, after)
    ELSE Goto("adjGet", [l EXCEPT !.phase = "rollback", !.rb = Len(l.toRollback), !.after = after])

\* Variant: the items are reserved last to first.
AdjustTarget_OtherItem(rq, l) ==
    CASE l.phase = "reserve" ->
            [ProductID |-> rq.Items[Len(rq.Items) - l.i + 1].ProductID,
             delta |-> 0 - rq.Items[Len(rq.Items) - l.i + 1].Quantity]
      [] l.phase = "rollback" ->
            [ProductID |-> l.toRollback[l.rb].ProductID, delta |-> l.toRollback[l.rb].Qty]
      [] OTHER ->
            [ProductID |-> l.o.Items[l.i].ProductID, delta |-> l.o.Items[l.i].Quantity]

\* Variant: a reservation takes one unit whatever the quantity.
AdjustTarget_ReserveOne(rq, l) ==
    CASE l.phase = "reserve" ->
            [ProductID |-> rq.Items[l.i].ProductID, delta |-> 0 - 1]
      [] l.phase = "rollback" ->
            [ProductID |-> l.toRollback[l.rb].ProductID, delta |-> l.toRollback[l.rb].Qty]
      [] OTHER ->
            [ProductID |-> l.o.Items[l.i].ProductID, delta |-> l.o.Items[l.i].Quantity]

\* Variant: a canceled order gives back one unit per line item.
AdjustTarget_UnitRestock(rq, l) ==
    CASE l.phase = "reserve" ->
            [ProductID |-> rq.Items[l.i].ProductID, delta |-> 0 - rq.Items[l.i].Quantity]
      [] l.phase = "rollback" ->
            [ProductID |-> l.toRollback[l.rb].ProductID, delta |-> l.toRollback[l.rb].Qty]
      [] OTHER ->
            [ProductID |-> l.o.Items[l.i].ProductID, delta |-> 1]

\* The product and delta of the AdjustStock call in progress.
AdjustTarget(rq, l) ==
    CASE l.phase = "reserve" ->
            [ProductID |-> rq.Items[l.i].ProductID, delta |-> 0 - rq.Items[l.i].Quantity]
      [] l.phase = "rollback" ->
            [ProductID |-> l.toRollback[l.rb].ProductID, delta |-> l.toRollback[l.rb].Qty]
      [] OTHER ->
            [ProductID |-> l.o.Items[l.i].ProductID, delta |-> l.o.Items[l.i].Quantity]

\* Variant: the rollback loop gives up at its first failed compensation.
AfterAdjust_AbortUndo(rq, l, err) ==
    CASE l.phase = "reserve" ->
            IF err = ""
            THEN NextItem(rq, [l EXCEPT !.toRollback =
                                   Append(@, [ProductID |-> rq.Items[l.i].ProductID,
                                              Qty |-> rq.Items[l.i].Quantity]),
                                        !.i = @ + 1])
            ELSE StartRollback(l, IF err = "insufficient stock"
                                  THEN Resp(409, "insufficient stock", "reserve")
                                  ELSE Resp(400, "product not found", "reserve"))
      [] l.phase = "rollback" ->
            IF err = "" /\ l.rb > 1 THEN Goto("adjGet", [l EXCEPT !.rb = @ - 1])
            ELSE Done(l, l.after)
      [] OTHER ->
            IF l.i < Len(l.o.Items) THEN Goto("adjGet", [l EXCEPT !.i = @ + 1])
            ELSE Goto("write", l)

\* Variant: a reservation the catalog could not serve is tried again.
AfterAdjust_RetryReserve(rq, l, err) ==
    CASE l.phase = "reserve" ->
            IF err = ""
            THEN NextItem(rq, [l EXCEPT !.toRollback =
                                   Append(@, [ProductID |-> rq.Items[l.i].ProductID,
                                              Qty |-> rq.Items[l.i].Quantity]),
                                        !.i = @ + 1])
            ELSE IF err = "insufficient stock"
            THEN StartRollback(l, Resp(409, "insufficient stock", "reserve"))
            ELSE Goto("adjGet", l)
      [] l.phase = "rollback" ->
            IF l.rb > 1 THEN Goto("adjGet", [l EXCEPT !.rb = @ - 1]) ELSE Done(l, l.after)
      [] OTHER ->
            IF l.i < Len(l.o.Items) THEN Goto("adjGet", [l EXCEPT !.i = @ + 1])
            ELSE Goto("write", l)

\* Variant: every failed reservation is answered as a conflict.
AfterAdjust_AlwaysConflict(rq, l, err) ==
    CASE l.phase = "reserve" ->
            IF err = ""
            THEN NextItem(rq, [l EXCEPT !.toRollback =
                                   Append(@, [ProductID |-> rq.Items[l.i].ProductID,
                                              Qty |-> rq.Items[l.i].Quantity]),
                                        !.i = @ + 1])
            ELSE StartRollback(l, Resp(409, "insufficient stock", "reserve"))
      [] l.phase = "rollback" ->
            IF l.rb > 1 THEN Goto("adjGet", [l EXCEPT !.rb = @ - 1]) ELSE Done(l, l.after)
      [] OTHER ->
            IF l.i < Len(l.o.Items) THEN Goto("adjGet", [l EXCEPT !.i = @ + 1])
            ELSE Goto("write", l)

\* Variant: a compensation that fails is answered to the caller.
AfterAdjust_EscalateUndo(rq, l, err) ==
    CASE l.phase = "reserve" ->
            IF err = ""
            THEN NextItem(rq, [l EXCEPT !.toRollback =
                                   Append(@, [ProductID |-> rq.Items[l.i].ProductID,
                                              Qty |-> rq.Items[l.i].Quantity]),
                                        !.i = @ + 1])
            ELSE StartRollback(l, IF err = "insufficient stock"
                                  THEN Resp(409, "insufficient stock", "reserve")
                                  ELSE Resp(400, "product not found", "reserve"))
      [] l.phase = "rollback" ->
            IF err # "" THEN Done(l, Resp(500, "rollback error", "reserve"))
            ELSE IF l.rb > 1 THEN Goto("adjGet", [l EXCEPT !.rb = @ - 1])
            ELSE Done(l, l.after)
      [] OTHER ->
            IF l.i < Len(l.o.Items) THEN Goto("adjGet", [l EXCEPT !.i = @ + 1])
            ELSE Goto("write", l)

\* Variant: the rollback loop stops after its first compensation.
AfterAdjust_OneUndo(rq, l, err) ==
    CASE l.phase = "reserve" ->
            IF err = ""
            THEN NextItem(rq, [l EXCEPT !.toRollback =
                                   Append(@, [ProductID |-> rq.Items[l.i].ProductID,
                                              Qty |-> rq.Items[l.i].Quantity]),
                                        !.i = @ + 1])
            ELSE StartRollback(l, IF err = "insufficient stock"
                                  THEN Resp(409, "insufficient stock", "reserve")
                                  ELSE Resp(400, "product not found", "reserve"))
      [] l.phase = "rollback" -> Done(l, l.after)
      [] OTHER ->
            IF l.i < Len(l.o.Items) THEN Goto("adjGet", [l EXCEPT !.i = @ + 1])
            ELSE Goto("write", l)

\* Variant: a failed restock ends the status request with an error.
AfterAdjust_RestockFailureAborts(rq, l, err) ==
    CASE l.phase = "reserve" ->
            IF err = ""
            THEN NextItem(rq, [l EXCEPT !.toRollback =
                                   Append(@, [ProductID |-> rq.Items[l.i].ProductID,
                                              Qty |-> rq.Items[l.i].Quantity]),
                                        !.i = @ + 1])
            ELSE StartRollback(l, IF err = "insufficient stock"
                                  THEN Resp(409, "insufficient stock", "reserve")
                                  ELSE Resp(400, "product not found", "reserve"))
      [] l.phase = "rollback" ->
            IF l.rb > 1 THEN Goto("adjGet", [l EXCEPT !.rb = @ - 1]) ELSE Done(l, l.after)
      [] OTHER ->
            IF err # "" THEN Done(l, Resp(500, "restock error", "restock"))
            ELSE IF l.i < Len(l.o.Items) THEN Goto("adjGet", [l EXCEPT !.i = @ + 1])
            ELSE Goto("write", l)

\* Variant: the restock loop never advances to the next item.
AfterAdjust_RestockSameItem(rq, l, err) ==
    CASE l.phase = "reserve" ->
            IF err = ""
            THEN NextItem(rq, [l EXCEPT !.toRollback =
                                   Append(@, [ProductID |-> rq.Items[l.i].ProductID,
                                              Qty |-> rq.Items[l.i].Quantity]),
                                        !.i = @ + 1])
            ELSE StartRollback(l, IF err = "insufficient stock"
                                  THEN Resp(409, "insufficient stock", "reserve")
                                  ELSE Resp(400, "product not found", "reserve"))
      [] l.phase = "rollback" ->
            IF l.rb > 1 THEN Goto("adjGet", [l EXCEPT !.rb = @ - 1]) ELSE Done(l, l.after)
      [] OTHER ->
            IF l.i < Len(l.o.Items) THEN Goto("adjGet", l)
            ELSE Goto("write", l)

\* What the caller of AdjustStock does with its result err ("" is nil).
AfterAdjust(rq, l, err) ==
    CASE l.phase = "reserve" ->
            IF err = ""
            THEN NextItem(rq, [l EXCEPT !.toRollback =
                                   Append(@, [ProductID |-> rq.Items[l.i].ProductID,
                                              Qty |-> rq.Items[l.i].Quantity]),
                                        !.i = @ + 1])
            ELSE StartRollback(l, IF err = "insufficient stock"
                                  THEN Resp(409, "insufficient stock", "reserve")
                                  ELSE Resp(400, "product not found", "reserve"))
      [] l.phase = "rollback" ->
            IF l.rb > 1 THEN Goto("adjGet", [l EXCEPT !.rb = @ - 1]) ELSE Done(l, l.after)
      [] OTHER ->
            IF l.i < Len(l.o.Items) THEN Goto("adjGet", [l EXCEPT !.i = @ + 1])
            ELSE Goto("write", l)

\* POST /orders arrives with a body drawn from users x lists, while fewer
\* than cap orders are stored: the body is bound and user_id and items are
\* checked.
StartCreate(w, users, lists, cap) ==
    /\ pc[w] = "idle"
    /\ Len(orders) < cap
    /\ \E userID \in users, items \in lists :
          LET l == [NoLoc EXCEPT !.stock0 = StockOf(catalog), !.status0 = StatusesOf(orders),
                                 !.env0 = envEvents]
          IN  /\ req' = [req EXCEPT ![w] = [NoReq EXCEPT !.op = "create", !.UserID = userID,
                                                         !.Items = items]]
              /\ Move(w, IF userID = "" \/ Len(items) = 0
                         THEN Done(l, Resp(400, "user_id & items required", "bind"))
                         ELSE Goto("validate", l), <<>>, FALSE)
    /\ UNCHANGED <<catalog, orders>>

BeginCreate(w) == StartCreate(w, UserIDs, ItemLists, MaxOrders)

\* The user repository's GetByID: whatever stops the row from being read
\* and scanned, the error returned is ErrNotFound.
UserGetByID(id, store) ==
    IF store = "up" /\ id \in KnownUsers THEN "" ELSE "ErrNotFound"

\* Variant: every user id is answered as valid.
ValidateUserRPC_Anyone(id, store) == [Ok |-> TRUE, err |-> ""]

\* user-service ValidateUser: Ok is true iff the user row is found;
\* ErrNotFound is answered Ok = false, any other repository error Internal.
ValidateUserRPC(id, store) ==
    IF id = "" THEN [Ok |-> FALSE, err |-> "InvalidArgument"]
    ELSE IF UserGetByID(id, store) = "" THEN [Ok |-> TRUE, err |-> ""]
    ELSE IF UserGetByID(id, store) = "ErrNotFound" THEN [Ok |-> FALSE, err |-> ""]
    ELSE [Ok |-> FALSE, err |-> "Internal"]

\* ext.ValidateUser, then the first turn of the item loop.  The call may
\* fail on its way ("rpcerr") or find the user store unreadable ("dberr").
CoValidate(w) ==
    /\ pc[w] = "validate"
    /\ \E out \in {"ok", "rpcerr", "dberr"} :
          /\ MayInject(out)
          /\ LET store == IF out = "dberr" THEN "down" ELSE "up"
                 ans == ValidateUserRPC(req[w].UserID, store)
                 err == IF out = "rpcerr" THEN "rpc error" ELSE ans.err
                 ok == err = "" /\ ans.Ok
                 l == [loc[w] EXCEPT !.i = 1,
                                     !.lookup = IF out = "rpcerr" THEN "none" ELSE store]
             IN  Move(w, IF ok THEN NextItem(req[w], l)
                         ELSE Done(l, Resp(400, "invalid user", "validate")),
                      <<Call("ValidateUser", req[w].UserID, 0, ok, FALSE, err)>>, out # "ok")
    /\ UNCHANGED <<catalog, orders, req>>

\* ext.FetchProduct for the current item, the price parsed, the total
\* accumulated and the price frozen under the product id.  fetched records
\* what each item's own fetch returned.
CoFetch(w) ==
    /\ pc[w] = "fetch"
    /\ \E out \in {"ok", "neterr", "badprice"} :
          /\ MayInject(out)
          /\ LET it == req[w].Items[loc[w].i]
                 res == GetProduct(catalog, it.ProductID)
                 err == out = "neterr" \/ res.status # 200
                 price == IF out = "badprice" THEN BadPrice ELSE res.Price
                 l == [loc[w] EXCEPT !.total = @ + price * it.Quantity,
                                     !.priceByProduct = (it.ProductID :> StringFixed2(price)) @@ @,
                                     !.phase = "reserve",
                                     !.fetched = Append(@, [Price |-> price,
                                                            Stock |-> res.Stock])]
             IN  Move(w, IF err THEN Done(loc[w], Resp(400, "product not found", "fetch"))
                         ELSE IF ~ParsesAsDecimal(price)
                         THEN Done(loc[w], Resp(500, "invalid product price", "price"))
                         ELSE Goto("adjGet", l),
                      <<Call("FetchProduct", it.ProductID, 0, ~err, FALSE, "")>>, out # "ok")
    /\ UNCHANGED <<catalog, orders, req>>

\* Variant: no new stock is refused.
Insufficient_Never(newStock) == FALSE

\* if newStock < 0 { return "insufficient stock" }
Insufficient(newStock) == newStock < 0

\* Variant: a reservation counts from the stock the item's earlier
\* FetchProduct in the handler returned.
StockRead_Snapshot(l, res) ==
    IF l.phase = "reserve" THEN l.fetched[l.i].Stock ELSE res.Stock

\* p.Stock of the product AdjustStock has just fetched.
StockRead(l, res) == res.Stock

\* Ext.AdjustStock, first half: FetchProduct, newStock := p.Stock + delta,
\* "insufficient stock" when newStock < 0.  reads records, for each
\* reservation, the stock this fetch found (-1: the fetch failed).
CoAdjGet(w) ==
    /\ pc[w] = "adjGet"
    /\ \E out \in {"ok", "neterr"} :
          /\ MayInject(out)
          /\ LET tgt == AdjustTarget(req[w], loc[w])
                 res == GetProduct(catalog, tgt.ProductID)
                 newStock == StockRead(loc[w], res) + tgt.delta
                 err == IF out = "neterr" \/ res.status # 200 THEN "adjust fetch"
                        ELSE IF Insufficient(newStock) THEN "insufficient stock" ELSE ""
                 l == IF loc[w].phase = "reserve"
                      THEN [loc[w] EXCEPT !.reads =
                               Append(@, IF err = "adjust fetch" THEN 0 - 1 ELSE res.Stock)]
                      ELSE loc[w]
             IN  /\ newStock <= StockCap
                 /\ IF err = ""
                    THEN Move(w, Goto("adjPut", [l EXCEPT !.newStock = newStock]),
                              <<>>, FALSE)
                    ELSE Move(w, AfterAdjust(req[w], l, err),
                              <<Call("AdjustStock", tgt.ProductID, tgt.delta, FALSE, FALSE, err)>>,
                              out # "ok")
    /\ UNCHANGED <<catalog, orders, req>>

\* The error Ext.AdjustStock makes of the PUT's status code.
PutError(status) ==
    CASE status = 200 -> ""
      [] status = 404 -> "product not found"
      [] status = 400 -> "invalid stock"
      [] OTHER -> "update stock error"

\* Ext.AdjustStock, second half: PUT /products/{id} {"stock": newStock}.
\* The request may fail before the product service serves it ("neterr") or
\* after, its answer lost ("lost").
CoAdjPut(w) ==
    /\ pc[w] = "adjPut"
    /\ \E out \in {"ok", "neterr", "lost"} :
          /\ MayInject(out)
          /\ LET tgt == AdjustTarget(req[w], loc[w])
                 upd == UpdateProduct(catalog, tgt.ProductID, [stock |-> loc[w].newStock])
                 err == IF out = "ok" THEN PutError(upd.status) ELSE "http error"
             IN  /\ catalog' = IF out = "neterr" THEN catalog ELSE upd.cat
                 /\ Move(w, AfterAdjust(req[w], loc[w], err),
                         <<Call("AdjustStock", tgt.ProductID, tgt.delta, err = "",
                                out # "neterr" /\ upd.status = 200, err)>>,
                         out # "ok")
    /\ UNCHANGED <<orders, req>>

\* Variant: two items naming one product are stored as one merged line.
BuildItems_Merged(rq, l) ==
    IF Len(rq.Items) = 2 /\ rq.Items[1].ProductID = rq.Items[2].ProductID
    THEN <<[ProductID |-> rq.Items[1].ProductID,
            Quantity |-> rq.Items[1].Quantity + rq.Items[2].Quantity,
            Price |-> l.priceByProduct[rq.Items[1].ProductID]]>>
    ELSE [k \in 1..Len(rq.Items) |->
             [ProductID |-> rq.Items[k].ProductID,
              Quantity |-> rq.Items[k].Quantity,
              Price |-> l.priceByProduct[rq.Items[k].ProductID]]]

\* The order and its items as the handler builds them after the loop.
BuildItems(rq, l) ==
    [k \in 1..Len(rq.Items) |->
        [ProductID |-> rq.Items[k].ProductID,
         Quantity |-> rq.Items[k].Quantity,
         Price |-> l.priceByProduct[rq.Items[k].ProductID]]]

BuildOrder(rq, l) ==
    [UserID |-> rq.UserID, Status |-> "pending", Total |-> StringFixed2(l.total),
     Items |-> BuildItems(rq, l)]

\* The statements of PGRepo.Create for order o, in the order it runs them.
ItemStep == <<"insert item 1", "insert item 2", "insert item 3", "insert item 4">>
CreateSteps(o) ==
    <<"begin tx", "insert order">> \o [k \in 1..Len(o.Items) |-> ItemStep[k]] \o <<"commit">>

\* Variant: the statements run outside a transaction, so the rows written
\* before the failing statement stay.
RepoCreate_NoTx(os, o, failAt) ==
    IF failAt = 0 THEN [err |-> "", orders |-> Append(os, o)]
    ELSE [err |-> CreateSteps(o)[failAt],
          orders |-> IF failAt <= 2 THEN os
                     ELSE Append(os, [o EXCEPT !.Items = SubSeq(@, 1, failAt - 3)])]

\* PGRepo.Create: BeginTx, the INSERT of the order row, one INSERT per item,
\* Commit.  failAt is the statement that fails (0: none); the deferred
\* tx.Rollback then drops every row the transaction wrote.
RepoCreate(os, o, failAt) ==
    IF failAt = 0 THEN [err |-> "", orders |-> Append(os, o)]
    ELSE [err |-> CreateSteps(o)[failAt], orders |-> os]

\* repo.Create and the handler's answer to its error.
CoCreate(w) ==
    /\ pc[w] = "create"
    /\ \E failAt \in 0..Len(CreateSteps(BuildOrder(req[w], loc[w]))) :
          /\ MayInject(IF failAt = 0 THEN "ok" ELSE "dberr")
          /\ LET ins == RepoCreate(orders, BuildOrder(req[w], loc[w]), failAt)
             IN  /\ orders' = ins.orders
                 /\ Move(w, IF ins.err = ""
                            THEN Goto("reread", [loc[w] EXCEPT !.orderID = Len(orders) + 1])
                            ELSE StartRollback(loc[w],
                                               Resp(500, "create order error", "persist")),
                         <<Call("repo.Create", "", 0, ins.err = "", FALSE, ins.err)>>,
                         failAt # 0)
    /\ UNCHANGED <<catalog, req>>

\* repo.GetByID of the order table: the row and its items, or an error.
RepoGetByID(os, id) ==
    IF id \in 1..Len(os) THEN [err |-> FALSE, order |-> os[id]]
    ELSE [err |-> TRUE, order |-> NoOrder]

\* The closing repo.GetByID of both handlers (its error is dropped) and the
\* success response: 201 for a created order, 200 for a status update.
CoReread(w) ==
    /\ pc[w] = "reread"
    /\ \E out \in {"ok", "dberr"} :
          /\ MayInject(out)
          /\ LET got == RepoGetByID(orders, loc[w].orderID)
                 order == IF out = "ok" THEN got.order ELSE NoOrder
             IN  Move(w, Done(loc[w], RespOrder(IF req[w].op = "create" THEN 201 ELSE 200, order)),
                      <<Call("repo.GetByID", "", 0, out = "ok" /\ ~got.err, FALSE, "")>>, out # "ok")
    /\ UNCHANGED <<catalog, orders, req>>

(* ---------------------- updateOrderStatusHandler ---------------------- *)

\* PUT /orders/{id}/status arrives with an id and a text drawn from ids x
\* texts: the status is trimmed, lower-cased and checked against the allowed
\* set.
StartUpdate(w, ids, texts) ==
    /\ pc[w] = "idle"
    /\ \E id \in ids, text \in texts :
          LET newStatus == NormalizeStatus(text)
              l == [NoLoc EXCEPT !.stock0 = StockOf(catalog), !.status0 = StatusesOf(orders),
                                 !.env0 = envEvents, !.orderID = id]
          IN  /\ req' = [req EXCEPT ![w] = [NoReq EXCEPT !.op = "update", !.OrderID = id,
                                                         !.Status = text]]
              /\ Move(w, IF ~Allowed(newStatus)
                         THEN Done(l, Resp(400, "invalid status", "status"))
                         ELSE Goto("read", [l EXCEPT !.newStatus = StatusName(newStatus)]),
                      <<>>, FALSE)
    /\ UNCHANGED <<catalog, orders>>

BeginUpdate(w) == StartUpdate(w, OrderIDs, StatusTexts)

\* Variant: every cancellation restocks, whatever the stored status.
Transition_AnyCancelRestocks(o, newStatus) ==
    IF o.Status = newStatus THEN "noop"
    ELSE IF newStatus = "canceled" THEN "restock"
    ELSE "write"

\* Variant: no shortcut for a request that names the stored status.
Transition_NoShortcut(o, newStatus) ==
    IF o.Status = "pending" /\ newStatus = "canceled" THEN "restock"
    ELSE "write"

\* The transition policy: nothing to change, restock then write, or write.
Transition(o, newStatus) ==
    IF o.Status = newStatus THEN "noop"
    ELSE IF o.Status = "pending" /\ newStatus = "canceled" THEN "restock"
    ELSE "write"

\* repo.GetByID of the order, then the transition policy.
CoRead(w) ==
    /\ pc[w] = "read"
    /\ \E out \in {"ok", "dberr"} :
          /\ MayInject(out)
          /\ LET got == RepoGetByID(orders, loc[w].orderID)
                 err == out # "ok" \/ got.err
                 l == [loc[w] EXCEPT !.o = got.order]
             IN  Move(w, IF err THEN Done(loc[w], Resp(404, "not found", "read"))
                         ELSE IF Transition(got.order, l.newStatus) = "noop"
                         THEN Done(l, RespOrder(200, got.order))
                         ELSE IF Transition(got.order, l.newStatus) = "restock"
                                 /\ got.order.Items # <<>>
                         THEN Goto("adjGet", [l EXCEPT !.phase = "restock", !.i = 1])
                         ELSE Goto("write", l),
                      <<Call("repo.GetByID", "", 0, ~err, FALSE, "")>>, out # "ok")
    /\ UNCHANGED <<catalog, orders, req>>

\* Variant: the status update also zeroes the order's total.
RepoUpdateStatus_ResetsTotal(os, id, status) ==
    IF id \in 1..Len(os)
    THEN [err |-> "", orders |-> [os EXCEPT ![id].Status = status, ![id].Total = 0]]
    ELSE [err |-> "order not found", orders |-> os]

\* PGRepo.UpdateStatus: UPDATE orders SET status = $2 WHERE id = $1;
\* ErrNotFound when no row was affected.
RepoUpdateStatus(os, id, status) ==
    IF id \in 1..Len(os)
    THEN [err |-> "", orders |-> [os EXCEPT ![id].Status = status]]
    ELSE [err |-> "order not found", orders |-> os]

\* repo.UpdateStatus and the handler's answer to its error.
CoWrite(w) ==
    /\ pc[w] = "write"
    /\ \E out \in {"ok", "dberr"} :
          /\ MayInject(out)
          /\ LET upd == RepoUpdateStatus(orders, loc[w].orderID, loc[w].newStatus)
                 err == IF out = "ok" THEN upd.err ELSE "db error"
             IN  /\ orders' = IF out = "ok" THEN upd.orders ELSE orders
                 /\ Move(w, IF err = "" THEN Goto("reread", loc[w])
                            ELSE IF err = "order not found"
                            THEN Done(loc[w], Resp(404, "not found", "write"))
                            ELSE Done(loc[w], Resp(500, "update status error", "write")),
                         <<Call("repo.UpdateStatus", "", 0, err = "", FALSE, err)>>, out # "ok")
    /\ UNCHANGED <<catalog, req>>

\* The response has been sent: the slot is free for the next request.
Finish(w) ==
    /\ pc[w] = "done"
    /\ pc' = [pc EXCEPT ![w] = "idle"]
    /\ req' = [req EXCEPT ![w] = NoReq]
    /\ loc' = [loc EXCEPT ![w] = NoLoc]
    /\ resp' = [resp EXCEPT ![w] = NoResp]
    /\ calls' = [calls EXCEPT ![w] = <<>>]
    /\ UNCHANGED <<catalog, orders, envEvents>>

(* ----------------------------- environment ---------------------------- *)

\* A catalog administrator reprices a product: PUT /products/{id} with the
\* new price and the stock the product has.
SetPrice ==
    /\ envEvents < MaxEnvEvents
    /\ \E id \in Products, price \in Prices :
          /\ catalog[id].price # price
          /\ catalog' = UpdateProduct(catalog, id, [price |-> price,
                                                      stock |-> catalog[id].stock]).cat
    /\ envEvents' = envEvents + 1
    /\ UNCHANGED <<orders, pc, req, loc, resp, calls>>

\* The bodies a catalog client sends: any of name, price, stock may be
\* left out.
PutBodies ==
    {[name |-> "Mouse Pro 2"],
     [description |-> "Bluetooth", stock |-> 1],
     [name |-> "Mouse Pro 2", stock |-> 4],
     [price |-> 15000, stock |-> 4],
     [price |-> 15000],
     [name |-> "", price |-> 0, stock |-> 3],
     [stock |-> 0],
     [stock |-> 0 - 1]}

\* PUT /products/{id} served by updateProductHandler.
PutProduct(w) ==
    /\ pc[w] = "idle"
    /\ \E id \in Products \cup {"P9"}, body \in PutBodies :
          LET upd == UpdateProduct(catalog, id, body)
          IN  /\ catalog' = upd.cat
              /\ req' = [req EXCEPT ![w] = [NoReq EXCEPT !.op = "put", !.ProductID = id,
                                                         !.Body = body]]
              /\ Move(w, Done([NoLoc EXCEPT !.cat0 = catalog, !.stock0 = StockOf(catalog)],
                              CASE upd.status = 200 -> Resp(200, "", "")
                                [] upd.status = 500 -> Resp(500, "update error", "update")
                                [] OTHER -> Resp(404, "not found", "read")),
                      <<>>, FALSE)
    /\ UNCHANGED orders

(* --------------------------- specifications --------------------------- *)

Step(w) ==
    \/ BeginCreate(w)
    \/ CoValidate(w)
    \/ CoFetch(w)
    \/ CoAdjGet(w)
    \/ CoAdjPut(w)
    \/ CoCreate(w)
    \/ CoReread(w)
    \/ BeginUpdate(w)
    \/ CoRead(w)
    \/ CoWrite(w)
    \/ Finish(w)

\* Requests are served one at a time (slot 1); the catalog may be repriced
\* at any moment.
Next == Step(1) \/ SetPrice

Spec == Init /\ [][Next]_vars

\* Two requests in flight at once, one per slot, their steps interleaved.
\* The requests are those of a known user for the contended product P1 and
\* status requests in canonical spelling.
ConcItems == [ProductID : {"P1"}, Quantity : 1..MaxQty]
ConcItemLists == SeqsUpTo(ConcItems, MaxItems) \ {<<>>}
ConcTexts == {Spell.pending, Spell.paid, Spell.canceled}

ConcBeginCreate(w) == StartCreate(w, KnownUsers, ConcItemLists, MaxOrders + 1)
ConcBeginUpdate(w) == StartUpdate(w, OrderIDs, ConcTexts)

ConcStep(w) ==
    \/ ConcBeginCreate(w)
    \/ CoValidate(w)
    \/ CoFetch(w)
    \/ CoAdjGet(w)
    \/ CoAdjPut(w)
    \/ CoCreate(w)
    \/ CoReread(w)
    \/ ConcBeginUpdate(w)
    \/ CoRead(w)
    \/ CoWrite(w)

ConcNext == \E w \in Workers : ConcStep(w)

\* The pending order U1 holds for q units of P1 at the seeded price.
SeedOrder(q) ==
    [UserID |-> "U1", Status |-> "pending", Total |-> StringFixed2(q * InitPrice("P1")),
     Items |-> <<[ProductID |-> "P1", Quantity |-> q, Price |-> InitPrice("P1")]>>]

\* The two requests arrive when no order is stored, or when U1's pending
\* order for q units of P1 is, its units taken from the stock; one
\* collaborator failure may still happen.
ConcInit ==
    /\ \E q \in 0..MaxQty :
          /\ catalog = [p \in Products |->
                           [name |-> InitName(p), description |-> InitDescription(p),
                            price |-> InitPrice(p),
                            stock |-> IF p = "P1" THEN InitStock - q ELSE InitStockOf(p)]]
          /\ orders = IF q = 0 THEN <<>> ELSE <<SeedOrder(q)>>
    /\ pc = [w \in Workers |-> "idle"]
    /\ req = [w \in Workers |-> NoReq]
    /\ loc = [w \in Workers |-> NoLoc]
    /\ resp = [w \in Workers |-> NoResp]
    /\ calls = [w \in Workers |-> <<>>]
    /\ envEvents = MaxEnvEvents - 1

ConcSpec == ConcInit /\ [][ConcNext]_vars

\* The quantity the line items record for product p.
RECURSIVE QtyOf(_, _, _)
QtyOf(items, p, k) ==
    IF k = 0 THEN 0
    ELSE QtyOf(items, p, k - 1) + (IF items[k].ProductID = p THEN items[k].Quantity ELSE 0)

\* No restock of a stored order would lift a stock above StockCap.
RoomToRestock ==
    \A k \in 1..Len(orders), p \in Products :
        catalog[p].stock + QtyOf(orders[k].Items, p, Len(orders[k].Items)) <= StockCap

\* Requests served one at a time, each collaborator call returning: the
\* handler's goroutine always takes its next step.
LiveStep(w) ==
    \/ BeginCreate(w)
    \/ CoValidate(w)
    \/ CoFetch(w)
    \/ CoAdjGet(w)
    \/ CoAdjPut(w)
    \/ CoCreate(w)
    \/ CoReread(w)
    \/ (RoomToRestock /\ BeginUpdate(w))
    \/ CoRead(w)
    \/ CoWrite(w)
    \/ Finish(w)

LiveNext == LiveStep(1)

LiveSpec == Init /\ [][LiveNext]_vars /\ WF_vars(LiveNext)

(* -------------- product repository: atomic stock updates -------------- *)

StockIDs == {"P1", "P9"}
StockQtys == 1..(MaxQty + 1)

\* UPDATE products SET stock = stock - $2 WHERE id=$1 AND stock >= $2
\* RETURNING stock: one statement, the row it returns or none.
DecrementUpdate(cat, id, qty) ==
    IF id \in DOMAIN cat /\ cat[id].stock >= qty
    THEN [rows |-> 1, remaining |-> cat[id].stock - qty,
          cat |-> [cat EXCEPT ![id].stock = @ - qty]]
    ELSE [rows |-> 0, remaining |-> 0, cat |-> cat]

\* UPDATE products SET stock = stock + $2 WHERE id=$1 RETURNING stock.
IncrementUpdate(cat, id, qty) ==
    IF id \in DOMAIN cat
    THEN [rows |-> 1, remaining |-> cat[id].stock + qty,
          cat |-> [cat EXCEPT ![id].stock = @ + qty]]
    ELSE [rows |-> 0, remaining |-> 0, cat |-> cat]

\* A completed repository call: before is the stock its UPDATE found (-1:
\* no such product), remaining and err what it returned ("" is nil).
StockCall(op, id, qty, before, remaining, err) ==
    [op |-> op, id |-> id, qty |-> qty, before |-> before, remaining |-> remaining,
     err |-> err]

StockFound(cat, id) == IF id \in DOMAIN cat THEN cat[id].stock ELSE 0 - 1

\* PGRepo.DecrementStock up to the result of its UPDATE: an error other
\* than ErrNoRows is returned, a returned row is the answer, no row leads to
\* the existence query.
DecrementStock(w) ==
    /\ pc[w] \in {"idle", "done"}
    /\ Len(calls[w]) < MaxStockCalls
    /\ \E id \in StockIDs, qty \in StockQtys, out \in {"ok", "dberr"} :
          /\ MayInject(out)
          /\ LET upd == DecrementUpdate(catalog, id, qty)
                 before == StockFound(catalog, id)
             IN  /\ req' = [req EXCEPT ![w] = [op |-> "DecrementStock", ProductID |-> id,
                                                Qty |-> qty]]
                 /\ loc' = [loc EXCEPT ![w] = [NoLoc EXCEPT !.newStock = before]]
                 /\ catalog' = IF out = "ok" THEN upd.cat ELSE catalog
                 /\ pc' = [pc EXCEPT ![w] = IF out = "ok" /\ upd.rows = 0 THEN "exists"
                                            ELSE "done"]
                 /\ calls' = [calls EXCEPT ![w] =
                       IF out # "ok"
                       THEN Append(@, StockCall("DecrementStock", id, qty, before, 0, "db error"))
                       ELSE IF upd.rows = 1
                       THEN Append(@, StockCall("DecrementStock", id, qty, before,
                                                upd.remaining, ""))
                       ELSE @]
                 /\ envEvents' = IF out = "ok" THEN envEvents ELSE envEvents + 1
    /\ UNCHANGED <<orders, resp>>

\* PGRepo.DecrementStock after ErrNoRows: SELECT EXISTS(...), its error
\* dropped and exists left false; ErrInsufficientStock if exists, else
\* ErrNotFound.
DecrementExists(w) ==
    /\ pc[w] = "exists"
    /\ \E out \in {"ok", "dberr"} :
          /\ MayInject(out)
          /\ LET exists == out = "ok" /\ req[w].ProductID \in DOMAIN catalog
             IN  calls' = [calls EXCEPT ![w] =
                     Append(@, StockCall("DecrementStock", req[w].ProductID, req[w].Qty,
                                         loc[w].newStock, 0,
                                         IF exists THEN "insufficient stock"
                                         ELSE "product not found"))]
          /\ envEvents' = IF out = "ok" THEN envEvents ELSE envEvents + 1
    /\ pc' = [pc EXCEPT ![w] = "done"]
    /\ UNCHANGED <<catalog, orders, req, loc, resp>>

\* PGRepo.IncrementStock: one UPDATE; ErrNotFound when it returns no row.
IncrementStock(w) ==
    /\ pc[w] \in {"idle", "done"}
    /\ Len(calls[w]) < MaxStockCalls
    /\ \E id \in StockIDs, qty \in StockQtys, out \in {"ok", "dberr"} :
          /\ MayInject(out)
          /\ LET upd == IncrementUpdate(catalog, id, qty)
                 before == StockFound(catalog, id)
             IN  /\ upd.remaining <= StockCap
                 /\ req' = [req EXCEPT ![w] = [op |-> "IncrementStock", ProductID |-> id,
                                                Qty |-> qty]]
                 /\ catalog' = IF out = "ok" THEN upd.cat ELSE catalog
                 /\ calls' = [calls EXCEPT ![w] =
                       Append(@, StockCall("IncrementStock", id, qty, before,
                                           IF out = "ok" THEN upd.remaining ELSE 0,
                                           IF out # "ok" THEN "db error"
                                           ELSE IF upd.rows = 1 THEN ""
                                           ELSE "product not found"))]
                 /\ envEvents' = IF out = "ok" THEN envEvents ELSE envEvents + 1
    /\ pc' = [pc EXCEPT ![w] = "done"]
    /\ UNCHANGED <<orders, loc, resp>>

\* Callers of the product repository decrement and increment concurrently.
StockNext ==
    \E w \in Workers : DecrementStock(w) \/ DecrementExists(w) \/ IncrementStock(w)

StockSpec == Init /\ [][StockNext]_vars

\* The product service on its own: catalog clients update products.
PutNext == PutProduct(1) \/ Finish(1)

PutSpec == Init /\ [][PutNext]_vars

TypeOK ==
    /\ \A p \in Products :
          /\ catalog[p].stock \in 0..StockCap
          /\ catalog[p].price \in Prices
          /\ catalog[p].name = InitName(p)
          /\ catalog[p].description = InitDescription(p)
    /\ Len(orders) <= MaxOrders
    /\ envEvents \in 0..MaxEnvEvents
    /\ \A w \in Workers :
          pc[w] \in {"idle", "validate", "fetch", "adjGet", "adjPut", "create", "reread",
                     "read", "write", "done"}

(* ------------------------------ properties ---------------------------- *)

\* Slot w has answered a request of kind op and not yet been freed.
AtDone(w, op) == pc[w] = "done" /\ req[w].op = op

IsAdjust(c) == c.op = "AdjustStock"
IsCompensation(c) == c.op = "AdjustStock" /\ c.delta > 0
AdjustCalls(w) == SelectSeq(calls[w], IsAdjust)
Compensations(w) == SelectSeq(calls[w], IsCompensation)

\* The request in slot w saw AdjustStock(-q) fail / repo.Create fail.
FailedReserve(w) ==
    \E k \in 1..Len(calls[w]) :
        calls[w][k].op = "AdjustStock" /\ calls[w][k].delta < 0 /\ ~calls[w][k].ok
PersistFailed(w) ==
    \E k \in 1..Len(calls[w]) : calls[w][k].op = "repo.Create" /\ ~calls[w][k].ok

\* The compensating calls of slot w are the reservation log read backwards,
\* each entry with its own quantity.
CompensatedInReverse(w) ==
    LET log == loc[w].toRollback
        comp == Compensations(w)
    IN  /\ Len(comp) = Len(log)
        /\ \A k \in 1..Len(log) :
              /\ comp[k].id = log[Len(log) - k + 1].ProductID
              /\ comp[k].delta = log[Len(log) - k + 1].Qty

\* Every compensating call of slot w reached the catalog, and no failed
\* reservation did.
CompensationsApplied(w) ==
    \A k \in 1..Len(calls[w]) :
        calls[w][k].op = "AdjustStock" =>
            IF calls[w][k].delta > 0 THEN calls[w][k].applied
            ELSE calls[w][k].ok \/ ~calls[w][k].applied

NothingPersisted(w) == StatusesOf(orders) = loc[w].status0
StockAsBefore(w) == StockOf(catalog) = loc[w].stock0

FetchFailed(w) ==
    \E k \in 1..Len(calls[w]) : calls[w][k].op = "FetchProduct" /\ ~calls[w][k].ok

\* C3: if FetchProduct fails for item k of a create request, the request
\* answers "product not found" only after AdjustStock(+q) has been called
\* for each of the items 1..k-1 that had reserved stock.
C3_FetchFailureCompensates ==
    \A w \in Workers :
        AtDone(w, "create") /\ FetchFailed(w)
            => resp[w].error = "product not found" /\ CompensatedInReverse(w)

\* The request violates a precondition of order creation.
ViolatesPrecondition(rq) ==
    \/ rq.UserID = ""
    \/ rq.Items = <<>>
    \/ \E k \in 1..Len(rq.Items) :
          rq.Items[k].ProductID = "" \/ rq.Items[k].Quantity <= 0

\* C4: a create request that violates a precondition (empty user id, empty
\* item list, or an item at any position with quantity <= 0 or an empty
\* product id) fails with a validation error before any external call: no
\* ValidateUser, FetchProduct, AdjustStock or repository write is made.
C4_ValidationBeforeCalls ==
    \A w \in Workers :
        AtDone(w, "create") /\ ViolatesPrecondition(req[w])
            => resp[w].code = 400 /\ calls[w] = <<>> /\ StockAsBefore(w)

\* Sum over the first k line items of quantity x unit price.
RECURSIVE LineSum(_, _)
LineSum(items, k) ==
    IF k = 0 THEN 0 ELSE LineSum(items, k - 1) + items[k].Quantity * items[k].Price

\* C5: for every persisted order, whatever its item list (the same product
\* named twice included) and whatever price changes happen while the request
\* runs, order.total equals the sum over the persisted line items of
\* quantity x frozen unit price, at 2 decimals.
C5_TotalIsSumOfLines ==
    \A k \in 1..Len(orders) :
        orders[k].Total = StringFixed2(LineSum(orders[k].Items, Len(orders[k].Items)))

\* C6: only pending -> paid, pending -> canceled and same-state no-ops are
\* accepted; a request for any other transition is rejected, so an order
\* that was paid or canceled before a status request has the same status
\* after it.
C6_TerminalStatusesStay ==
    \A w \in Workers :
        AtDone(w, "update") /\ loc[w].orderID \in 1..Len(loc[w].status0)
          /\ loc[w].status0[loc[w].orderID] \in {"paid", "canceled"}
            => /\ orders[loc[w].orderID].Status = loc[w].status0[loc[w].orderID]
               /\ loc[w].newStatus # loc[w].status0[loc[w].orderID] => resp[w].code >= 400

\* The status request in slot w found the order pending and asked for canceled.
CancelsPending(w) ==
    AtDone(w, "update") /\ loc[w].o.Status = "pending" /\ loc[w].newStatus = "canceled"

\* C7: a status request that cancels a pending order calls
\* AdjustStock(productID, +quantity) exactly once for each line item, in item
\* order, with the quantity the item records; when every one of these calls
\* succeeds each product's stock has risen by the order's quantities for it;
\* and when the request succeeds the order's status is canceled.
C7_CancelRestocksEachItemOnce ==
    \A w \in Workers :
        CancelsPending(w)
            => LET items == loc[w].o.Items
                   adj == AdjustCalls(w)
               IN  /\ Len(adj) = Len(items)
                   /\ \A k \in 1..Len(items) :
                         adj[k].id = items[k].ProductID /\ adj[k].delta = items[k].Quantity
                   /\ (\A k \in 1..Len(adj) : adj[k].ok)
                         => \A p \in Products :
                               catalog[p].stock = loc[w].stock0[p] + QtyOf(items, p, Len(items))
                   /\ resp[w].code = 200 => orders[loc[w].orderID].Status = "canceled"
                   /\ (\A k \in 1..Len(calls[w]) : calls[w][k].ok) => resp[w].code = 200

\* C7's case: a pending order with a line of quantity 2 was canceled and
\* the product's stock rose by 2.
C7_CanceledAndRestocked ==
    /\ CancelsPending(1) /\ resp[1].code = 200
    /\ orders[loc[1].orderID].Status = "canceled"
    /\ \E k \in 1..Len(loc[1].o.Items) :
          /\ loc[1].o.Items[k].Quantity = 2
          /\ catalog[loc[1].o.Items[k].ProductID].stock
                >= loc[1].stock0[loc[1].o.Items[k].ProductID] + 2

\* C8: a status request adjusts stock only when the stored status is
\* pending and the requested one canceled; every other accepted transition
\* writes the new status and leaves every product's stock unchanged.
C8_OnlyCancelOfPendingRestocks ==
    \A w \in Workers :
        AtDone(w, "update") /\ ~CancelsPending(w)
            => /\ AdjustCalls(w) = <<>>
               /\ StockAsBefore(w)
               /\ resp[w].code = 200 /\ loc[w].o.Status # loc[w].newStatus
                     => orders[loc[w].orderID].Status = loc[w].newStatus

\* C8's case: a paid order was marked canceled and no stock moved.
C8_PaidThenCanceledNoRestock ==
    /\ AtDone(1, "update") /\ resp[1].code = 200
    /\ loc[1].o.Status = "paid" /\ loc[1].newStatus = "canceled"
    /\ orders[loc[1].orderID].Status = "canceled"
    /\ StockAsBefore(1)

\* C9: a status request that names the order's current status returns the
\* order unchanged with success, calls AdjustStock for no item and skips the
\* repository status write.
C9_SameStatusIsNoOp ==
    \A w \in Workers :
        AtDone(w, "update") /\ loc[w].o # NoOrder /\ loc[w].o.Status = loc[w].newStatus
            => /\ resp[w].code = 200
               /\ resp[w].order = loc[w].o
               /\ orders[loc[w].orderID] = loc[w].o
               /\ AdjustCalls(w) = <<>>
               /\ \A k \in 1..Len(calls[w]) : calls[w][k].op # "repo.UpdateStatus"
               /\ StockAsBefore(w) /\ NothingPersisted(w)

\* C9's case: a canceled order is asked to be canceled again.
C9_CanceledAgain ==
    /\ AtDone(1, "update") /\ loc[1].o.Status = "canceled" /\ loc[1].newStatus = "canceled"
    /\ resp[1].code = 200 /\ calls[1] # <<>>

\* text is name written in any letter case between any number of spaces.
Matches(text, name) ==
    \E i \in 1..(Len(text) + 1) :
        /\ \A k \in 1..(i - 1) : IsSpace(text[k])
        /\ i + Len(Spell[name]) - 1 <= Len(text)
        /\ \A k \in 1..Len(Spell[name]) : LowerChar(text[i + k - 1]) = Spell[name][k]
        /\ \A k \in (i + Len(Spell[name]))..Len(text) : IsSpace(text[k])

\* C10: a status request whose text, trimmed and case-folded, is outside
\* {pending, paid, canceled} answers 400 "invalid status" before the order is
\* read: no call is made, no catalog read or write, and the stored statuses
\* are unchanged.
C10_InvalidStatusRejectedFirst ==
    \A w \in Workers :
        AtDone(w, "update") /\ ~(\E name \in DOMAIN Spell : Matches(req[w].Status, name))
            => /\ resp[w].code = 400 /\ resp[w].error = "invalid status"
               /\ calls[w] = <<>>
               /\ StockAsBefore(w) /\ NothingPersisted(w)

\* C10's case: the text "wtf" was refused while an order exists.
C10_WtfRefused ==
    /\ AtDone(1, "update") /\ req[1].Status = <<"w", "t", "f">>
    /\ req[1].OrderID \in 1..Len(orders)
    /\ resp[1].code = 400 /\ calls[1] = <<>>

IsReservation(c) == c.op = "AdjustStock" /\ c.delta < 0
Reservations(w) == SelectSeq(calls[w], IsReservation)

\* C11: an order reaches the repository only after AdjustStock(-q) has
\* succeeded for every one of its items: whenever a create request has
\* issued repo.Create, its log holds one successful, applied reservation per
\* requested item, in item order, all before the repository write; and the
\* order it persisted has exactly the requested items.
C11_PersistOnlyAfterAllReserved ==
    \A w \in Workers :
        req[w].op = "create"
          /\ ( \/ \E k \in 1..Len(calls[w]) : calls[w][k].op = "repo.Create"
               \/ Len(orders) > Len(loc[w].status0) )
            => LET res == Reservations(w)
                   items == req[w].Items
               IN  /\ Len(res) = Len(items)
                   /\ \A k \in 1..Len(items) :
                         /\ res[k].id = items[k].ProductID
                         /\ res[k].delta = 0 - items[k].Quantity
                         /\ res[k].ok /\ res[k].applied
                   /\ \A i, j \in 1..Len(calls[w]) :
                         calls[w][i].op = "repo.Create" /\ IsReservation(calls[w][j]) => j < i
                   /\ Len(orders) > Len(loc[w].status0)
                         => /\ \E k \in 1..Len(calls[w]) :
                                  calls[w][k].op = "repo.Create" /\ calls[w][k].ok
                            /\ LET o == orders[Len(orders)]
                               IN  /\ Len(o.Items) = Len(items)
                                   /\ \A k \in 1..Len(items) :
                                         /\ o.Items[k].ProductID = items[k].ProductID
                                         /\ o.Items[k].Quantity = items[k].Quantity

\* C11's case: a two-item order has just been written.
C11_TwoItemOrderWritten ==
    /\ pc[1] = "reread" /\ req[1].op = "create" /\ Len(req[1].Items) = 2
    /\ Len(orders) = Len(loc[1].status0) + 1
    /\ Len(Reservations(1)) = 2

\* C12: when ValidateUser answers false or fails, the create request
\* answers 400 "invalid user" and touches no stock: ValidateUser is its only
\* call, no order is written and every product's stock is unchanged.
C12_InvalidUserTouchesNothing ==
    \A w \in Workers :
        AtDone(w, "create") /\ req[w].UserID # "" /\ req[w].Items # <<>>
          /\ ( \/ req[w].UserID \notin KnownUsers
               \/ (calls[w] # <<>> /\ calls[w][1].op = "ValidateUser" /\ ~calls[w][1].ok) )
            => /\ resp[w].code = 400 /\ resp[w].error = "invalid user"
               /\ Len(calls[w]) = 1 /\ calls[w][1].op = "ValidateUser"
               /\ StockAsBefore(w) /\ NothingPersisted(w)

\* C12's case: an unknown user asked for two items.
C12_UnknownUserRefused ==
    /\ AtDone(1, "create") /\ req[1].UserID = "U2" /\ Len(req[1].Items) = 2
    /\ resp[1].error = "invalid user" /\ StockAsBefore(1)

\* A request by a known user whose items are valid, name catalog products
\* and ask, product by product, for no more than the stock before it.
Eligible(w) ==
    /\ req[w].UserID \in KnownUsers
    /\ req[w].Items # <<>>
    /\ \A k \in 1..Len(req[w].Items) :
          req[w].Items[k].ProductID \in Products /\ req[w].Items[k].Quantity > 0
    /\ \A p \in Products :
          QtyOf(req[w].Items, p, Len(req[w].Items)) <= loc[w].stock0[p]

\* Sum over the first k requested items of quantity x the catalog's price.
RECURSIVE CatalogSum(_, _, _)
CatalogSum(cat, items, k) ==
    IF k = 0 THEN 0
    ELSE CatalogSum(cat, items, k - 1) + items[k].Quantity * cat[items[k].ProductID].price

\* C13: a create request by a valid user whose items all name existing
\* products with enough stock, served with no collaborator failure, answers
\* 201, persists one order with status pending and one line per requested
\* item, its total the sum of quantity x price, and lowers each product's
\* stock by exactly the quantity requested for it.
C13_HappyPath ==
    \A w \in Workers :
        AtDone(w, "create") /\ Eligible(w) /\ envEvents = loc[w].env0
            => /\ resp[w].code = 201
               /\ Len(orders) = Len(loc[w].status0) + 1
               /\ LET o == orders[Len(orders)]
                      items == req[w].Items
                  IN  /\ o.Status = "pending" /\ o.UserID = req[w].UserID
                      /\ resp[w].order = o
                      /\ Len(o.Items) = Len(items)
                      /\ \A k \in 1..Len(items) :
                            /\ o.Items[k].ProductID = items[k].ProductID
                            /\ o.Items[k].Quantity = items[k].Quantity
                            /\ o.Items[k].Price = catalog[items[k].ProductID].price
                      /\ o.Total = CatalogSum(catalog, items, Len(items))
                      /\ \A p \in Products :
                            catalog[p].stock = loc[w].stock0[p] - QtyOf(items, p, Len(items))

\* C13's case: 2 units at 15.00 were ordered: total 30.00, stock 2 lower.
C13_TwoUnitsAtFifteen ==
    /\ AtDone(1, "create") /\ resp[1].code = 201 /\ envEvents = loc[1].env0
    /\ Len(req[1].Items) = 1 /\ req[1].Items[1].Quantity = 2
    /\ resp[1].order.Total = 30000
    /\ resp[1].order.Items[1].Price = 15000
    /\ catalog[req[1].Items[1].ProductID].stock
          = loc[1].stock0[req[1].Items[1].ProductID] - 2

\* The reservation of slot w that failed.
FailedCall(w) ==
    calls[w][CHOOSE k \in 1..Len(calls[w]) : IsReservation(calls[w][k]) /\ ~calls[w][k].ok]

\* The failed reservation asked for more than the product had left: its
\* stock before the request less what the earlier items had reserved of it.
Exceeds(w) ==
    LET c == FailedCall(w)
    IN  0 - c.delta > loc[w].stock0[c.id] - QtyOf(req[w].Items, c.id, loc[w].i - 1)

\* The answer create gives for a failed reservation: conflict exactly when
\* the catalog answered the read and the quantity exceeds the stock.
ReservationAnswer(w) ==
    AtDone(w, "create") /\ FailedReserve(w)
        => /\ NothingPersisted(w)
           /\ IF Exceeds(w) /\ FailedCall(w).err # "adjust fetch"
              THEN resp[w].code = 409 /\ resp[w].error = "insufficient stock"
              ELSE resp[w].code = 400 /\ resp[w].error = "product not found"

TriggerResponse(w) ==
    IF PersistFailed(w) THEN [code |-> 500, error |-> "create order error"]
    ELSE IF FailedCall(w).err = "insufficient stock"
    THEN [code |-> 409, error |-> "insufficient stock"]
    ELSE [code |-> 400, error |-> "product not found"]

\* C17: the failure a create request answers does not depend on whether its
\* compensating calls succeed: after a rollback the response is the one its
\* triggering failure calls for, whatever the compensations returned.
C17_ResponseIgnoresCompensation ==
    \A w \in Workers :
        AtDone(w, "create") /\ (PersistFailed(w) \/ FailedReserve(w))
            => /\ resp[w].code = TriggerResponse(w).code
               /\ resp[w].error = TriggerResponse(w).error
               /\ resp[w].order = NoOrder

\* C17's case: a compensation failed and the caller was told of the
\* insufficient stock only.
C17_FailedUndoNotEscalated ==
    /\ AtDone(1, "create") /\ FailedReserve(1)
    /\ \E k \in 1..Len(Compensations(1)) : ~Compensations(1)[k].ok
    /\ resp[1].code = 409

\* The response category the specification gives a failure kind.
Category(error) ==
    CASE error = "insufficient stock" -> 409
      [] error \in {"product not found", "not found"} -> 404
      [] error \in {"invalid user", "user_id & items required", "invalid item",
                    "invalid status"} -> 400
      [] OTHER -> 500

\* C16: every failure of create and of the status update is answered in the
\* category of its kind: conflict for insufficient stock, not-found for a
\* product not found and for an unknown order, bad-request for an invalid
\* user, a validation error and an invalid status.
C16_FailureCategories ==
    \A w \in Workers :
        pc[w] = "done" /\ req[w].op \in {"create", "update"} /\ resp[w].error # ""
            => resp[w].code = Category(resp[w].error)

\* C18: the identity check answers false without an error for a well-formed
\* unknown user id, and answers with a failure, never with false, when the
\* lookup could not be performed.
C18_LookupFailureIsNotFalse ==
    \A w \in Workers :
        req[w].op = "create" /\ calls[w] # <<>> /\ calls[w][1].op = "ValidateUser"
            => /\ loc[w].lookup = "up" /\ req[w].UserID \notin KnownUsers
                     => ~calls[w][1].ok /\ calls[w][1].err = ""
               /\ loc[w].lookup = "down" => calls[w][1].err # ""

\* The product a PUT names, before and after the request.
PutBefore(w) == loc[w].cat0[req[w].ProductID]
PutAfter(w) == catalog[req[w].ProductID]
Provided(body, field, empty) == field \in DOMAIN body /\ body[field] # empty

\* C19: PUT /products/{id} changes only the fields its body provides
\* non-empty: price is kept when no price is provided, and name and stock
\* keep their stored values when the body leaves them out.
C19_PutKeepsOmittedFields ==
    \A w \in Workers :
        AtDone(w, "put") /\ req[w].ProductID \in Products /\ resp[w].code = 200
            => /\ ~Provided(req[w].Body, "price", 0) => PutAfter(w).price = PutBefore(w).price
               /\ ~Provided(req[w].Body, "name", "") => PutAfter(w).name = PutBefore(w).name
               /\ "stock" \notin DOMAIN req[w].Body => PutAfter(w).stock = PutBefore(w).stock

\* C20: PUT /products/{id} with a negative stock is answered 400 and leaves
\* the stored product, its stock included, unchanged.
C20_NegativeStockIsBadRequest ==
    \A w \in Workers :
        AtDone(w, "put") /\ req[w].ProductID \in Products
          /\ "stock" \in DOMAIN req[w].Body /\ req[w].Body.stock < 0
            => resp[w].code = 400 /\ catalog = loc[w].cat0

\* C15: in every reachable state, under any interleaving of create and
\* status requests, every product's stock is >= 0: an AdjustStock whose new
\* stock would be below zero is refused as insufficient stock before its
\* PUT, so every PUT in flight carries a stock >= 0 and a refused call has
\* written nothing.
C15_StockNeverNegative ==
    /\ \A p \in Products : catalog[p].stock >= 0
    /\ \A w \in Workers :
          /\ pc[w] = "adjPut" => loc[w].newStock >= 0
          /\ \A k \in 1..Len(calls[w]) :
                calls[w][k].op = "AdjustStock"
                    => /\ calls[w][k].err = "insufficient stock"
                             => calls[w][k].delta < 0 /\ ~calls[w][k].applied
                       /\ calls[w][k].err \notin {"invalid stock", "update stock error"}

\* C15's case: two requests for 2 units each read the stock 2 before either
\* wrote; both reservations were applied and the stock is 0.
C15_TwoWritersRaced ==
    /\ AtDone(1, "create") /\ AtDone(2, "create")
    /\ loc[1].stock0["P1"] = 2 /\ loc[2].stock0["P1"] = 2
    /\ \A w \in Workers :
          /\ Len(Reservations(w)) = 1
          /\ Reservations(w)[1].delta = 0 - 2 /\ Reservations(w)[1].applied
    /\ catalog["P1"].stock = 0

\* The compensating calls made so far are the newest entries of the
\* reservation log, newest first.
UndoneNewestFirst(w) ==
    LET log == loc[w].toRollback
        comp == Compensations(w)
    IN  /\ Len(comp) <= Len(log)
        /\ \A k \in 1..Len(comp) :
              /\ comp[k].id = log[Len(log) - k + 1].ProductID
              /\ comp[k].delta = log[Len(log) - k + 1].Qty

\* C21: when create compensates, it walks the reservation log in reverse
\* insertion order: at every moment the compensating calls made are the
\* newest log entries, newest first, and at the response every entry has had
\* its AdjustStock(+q), also when an earlier call of the walk failed.
C21_ReverseWalkGoesOn ==
    \A w \in Workers :
        req[w].op = "create"
            => /\ UndoneNewestFirst(w)
               /\ pc[w] = "done" /\ (PersistFailed(w) \/ FailedReserve(w))
                     => Len(Compensations(w)) = Len(loc[w].toRollback)

\* C21's case: two reservations were walked back, the first compensating
\* call failed and the second was made all the same.
C21_WalkedPastFailure ==
    /\ AtDone(1, "create") /\ PersistFailed(1)
    /\ Len(Compensations(1)) = 2
    /\ ~Compensations(1)[1].ok
    /\ Compensations(1)[1].id # Compensations(1)[2].id

IsValidation(c) == c.op = "ValidateUser"
IsFetch(c) == c.op = "FetchProduct"
IsPersist(c) == c.op = "repo.Create"
IsForward(c) == IsValidation(c) \/ IsFetch(c) \/ IsReservation(c) \/ IsPersist(c)
Fetches(w) == SelectSeq(calls[w], IsFetch)
Forward(w) == SelectSeq(calls[w], IsForward)

\* C22: no collaborator operation is retried: a create request checks the
\* identity at most once, fetches and reserves each item at most once,
\* compensates each reserved item at most once and persists at most once;
\* one failed identity check, fetch, reservation or persist makes it fail.
C22_NoRetries ==
    \A w \in Workers :
        req[w].op = "create"
            => LET items == req[w].Items
               IN  /\ Len(SelectSeq(calls[w], IsValidation)) <= 1
                   /\ Len(SelectSeq(calls[w], IsPersist)) <= 1
                   /\ Len(Fetches(w)) <= Len(items)
                   /\ \A k \in 1..Len(Fetches(w)) : Fetches(w)[k].id = items[k].ProductID
                   /\ Len(Reservations(w)) <= Len(items)
                   /\ \A k \in 1..Len(Reservations(w)) :
                         /\ Reservations(w)[k].id = items[k].ProductID
                         /\ Reservations(w)[k].delta = 0 - items[k].Quantity
                   /\ UndoneNewestFirst(w)
                   /\ pc[w] = "done"
                        /\ (\E k \in 1..Len(calls[w]) : IsForward(calls[w][k]) /\ ~calls[w][k].ok)
                         => resp[w].code >= 400 /\ NothingPersisted(w)

\* C22's case: the catalog could not be reached for a reservation of a
\* stocked product; the request failed on that one attempt.
C22_OneFailureFails ==
    /\ AtDone(1, "create") /\ FailedReserve(1)
    /\ FailedCall(1).err = "adjust fetch"
    /\ Len(Reservations(1)) = 2
    /\ resp[1].code = 400

\* The j-th forward call of a request for items: the identity check, then
\* for each item its fetch and its reservation, then the repository write.
ExpectedAt(items, j, c) ==
    IF j = 1 THEN IsValidation(c)
    ELSE IF j = 2 * Len(items) + 2 THEN IsPersist(c)
    ELSE IF j % 2 = 0
    THEN IsFetch(c) /\ c.id = items[j \div 2].ProductID
    ELSE /\ IsReservation(c)
         /\ c.id = items[(j - 1) \div 2].ProductID
         /\ c.delta = 0 - items[(j - 1) \div 2].Quantity

\* C23: the calls of a create request happen in a fixed sequential order:
\* the identity check first, then item by item in the caller's order the
\* fetch and the reservation, then the repository write, and compensations
\* only after them; a call starts only when all calls before it have
\* returned, so no two calls of a request are in flight together.
C23_FixedSequentialOrder ==
    \A w \in Workers :
        req[w].op = "create"
            => LET items == req[w].Items
                   fwd == Forward(w)
               IN  /\ Len(fwd) <= 2 * Len(items) + 2
                   /\ \A j \in 1..Len(fwd) : ExpectedAt(items, j, fwd[j])
                   /\ \A i, j \in 1..Len(calls[w]) :
                         IsCompensation(calls[w][i]) /\ IsForward(calls[w][j]) => j < i
                   /\ pc[w] = "validate" => calls[w] = <<>>
                   /\ pc[w] = "fetch" => Len(calls[w]) = 2 * loc[w].i - 1
                   /\ pc[w] \in {"adjGet", "adjPut"} /\ loc[w].phase = "reserve"
                         => Len(calls[w]) = 2 * loc[w].i
                   /\ pc[w] = "create" => Len(calls[w]) = 2 * Len(items) + 1

\* C23's case: two different items were fetched and reserved in turn and
\* the repository write comes next.
C23_TwoItemsInTurn ==
    /\ pc[1] = "create" /\ req[1].op = "create" /\ Len(req[1].Items) = 2
    /\ req[1].Items[1].ProductID # req[1].Items[2].ProductID
    /\ Len(calls[1]) = 5

\* The create request in slot w, by a known user, names one catalog product
\* in two items.
SameTwice(w) ==
    /\ AtDone(w, "create") /\ req[w].UserID \in KnownUsers
    /\ Len(req[w].Items) = 2
    /\ req[w].Items[1].ProductID = req[w].Items[2].ProductID
    /\ req[w].Items[1].ProductID \in Products
    /\ \A k \in 1..2 : req[w].Items[k].Quantity > 0

\* The second of the two reservations was refused for lack of stock.
SecondRefused(w) ==
    /\ Len(Reservations(w)) = 2
    /\ Reservations(w)[1].ok
    /\ Reservations(w)[2].err = "insufficient stock"

\* Two reservations of one product, unmerged: the calls are AdjustStock(-q1)
\* then AdjustStock(-q2); a created order has the two lines and the stock is
\* down by q1 + q2; after a refusal of the second, AdjustStock(+q1) is called.
TwoReservationsOfOne(w) ==
    LET items == req[w].Items
        p == items[1].ProductID
        res == Reservations(w)
    IN  /\ \A k \in 1..Len(res) : res[k].id = p /\ res[k].delta = 0 - items[k].Quantity
        /\ resp[w].code = 201
              => /\ Len(res) = 2
                 /\ Len(orders) = Len(loc[w].status0) + 1
                 /\ Len(orders[Len(orders)].Items) = 2
                 /\ \A k \in 1..2 :
                       /\ orders[Len(orders)].Items[k].ProductID = p
                       /\ orders[Len(orders)].Items[k].Quantity = items[k].Quantity
                 /\ catalog[p].stock
                       = loc[w].stock0[p] - (items[1].Quantity + items[2].Quantity)
        /\ SecondRefused(w)
              => /\ Len(Compensations(w)) = 1
                 /\ Compensations(w)[1].id = p
                 /\ Compensations(w)[1].delta = items[1].Quantity
                 /\ NothingPersisted(w)

C25_PriceFromOwnFetch ==
    \A w \in Workers :
        AtDone(w, "create") /\ resp[w].code = 201
            => \A k \in 1..Len(orders[loc[w].orderID].Items) :
                  orders[loc[w].orderID].Items[k].Price = StringFixed2(loc[w].fetched[k].Price)

\* C26: once an order is persisted, no step of any status request and no
\* catalog price or stock change alters its line items (product id,
\* quantity, frozen unit price), its total or its owner; only its status
\* field changes.
C26_ItemsAndTotalFrozen ==
    [][\A k \in 1..Len(orders) :
          /\ k <= Len(orders')
          /\ orders'[k].Items = orders[k].Items
          /\ orders'[k].Total = orders[k].Total
          /\ orders'[k].UserID = orders[k].UserID]_vars

\* C26's case: an order was canceled, its stock given back, and the catalog
\* now asks another price than the one frozen in the order's line.
C26_CanceledAfterPriceChange ==
    /\ CancelsPending(1) /\ resp[1].code = 200
    /\ orders[loc[1].orderID].Status = "canceled"
    /\ \E k \in 1..Len(orders[loc[1].orderID].Items) :
          LET it == orders[loc[1].orderID].Items[k]
          IN  /\ catalog[it.ProductID].price # it.Price
              /\ catalog[it.ProductID].stock > loc[1].stock0[it.ProductID]

\* C27: whether an item is reserved is decided by the stock AdjustStock
\* itself reads, never by the item's earlier fetch: when that read finds
\* fewer units than the quantity the reservation is refused for lack of
\* stock and writes nothing; when it finds enough, the reservation goes on
\* to write the stock read less the quantity; whatever the earlier fetch
\* showed.
C27_OwnReadDecides ==
    \A w \in Workers :
        req[w].op = "create"
            => \A k \in 1..Len(loc[w].reads) :
                  LET read == loc[w].reads[k]
                      q == req[w].Items[k].Quantity
                      res == Reservations(w)
                  IN  /\ read = 0 - 1
                            => k <= Len(res) /\ res[k].err = "adjust fetch"
                      /\ read >= 0 /\ read < q
                            => /\ k <= Len(res)
                               /\ res[k].err = "insufficient stock" /\ ~res[k].applied
                      /\ read >= q
                            => \/ /\ pc[w] = "adjPut" /\ loc[w].phase = "reserve"
                                  /\ loc[w].i = k /\ loc[w].newStock = read - q
                               \/ /\ k <= Len(res)
                                  /\ res[k].err \notin {"insufficient stock", "adjust fetch"}

\* C27's case: the item's fetch showed enough stock, another request took
\* some of it, and AdjustStock, reading too little, refused the reservation.
C27_SnapshotOutdated ==
    \E k \in 1..Len(loc[1].reads) :
        /\ req[1].op = "create"
        /\ loc[1].fetched[k].Stock >= req[1].Items[k].Quantity
        /\ loc[1].reads[k] >= 0
        /\ loc[1].reads[k] < req[1].Items[k].Quantity
        /\ Reservations(1)[k].err = "insufficient stock"

IsStatusWrite(c) == c.op = "repo.UpdateStatus"
StatusWrites(w) == SelectSeq(calls[w], IsStatusWrite)

\* C28: in a pending -> canceled transition a failed restock blocks neither
\* the restocks of the remaining items nor the status write: whatever the
\* outcome of each call, AdjustStock(+quantity) is attempted once for every
\* item, then the status write is issued, and when that write succeeds the
\* order is canceled and the request answers 200.
C28_FailedRestockBlocksNothing ==
    \A w \in Workers :
        CancelsPending(w)
            => LET items == loc[w].o.Items
                   adj == AdjustCalls(w)
               IN  /\ Len(adj) = Len(items)
                   /\ \A k \in 1..Len(items) :
                         adj[k].id = items[k].ProductID /\ adj[k].delta = items[k].Quantity
                   /\ Len(StatusWrites(w)) = 1
                   /\ \A i, j \in 1..Len(calls[w]) :
                         IsStatusWrite(calls[w][i]) /\ IsAdjust(calls[w][j]) => j < i
                   /\ StatusWrites(w)[1].ok
                         => /\ resp[w].code = 200
                            /\ orders[loc[w].orderID].Status = "canceled"

\* C28's case: the restock of the first of two items failed, the second
\* was made, the order is canceled and the answer is 200.
C28_FirstRestockFailed ==
    /\ CancelsPending(1) /\ Len(loc[1].o.Items) = 2
    /\ Len(AdjustCalls(1)) = 2
    /\ ~AdjustCalls(1)[1].ok /\ AdjustCalls(1)[2].ok
    /\ resp[1].code = 200
    /\ orders[loc[1].orderID].Status = "canceled"

\* The repo.Create call of slot w, once it has returned.
Persists(w) == SelectSeq(calls[w], IsPersist)

\* C29: the repository stores an order and its line items as one unit:
\* when Create has returned nil the order row and all its items are stored,
\* when it has failed at any statement neither the row nor any item is; no
\* stored order lacks items, and the order the handler reads back, when its
\* read succeeds, carries every item of the request.
C29_OrderAndItemsAsOneUnit ==
    /\ \A k \in 1..Len(orders) : orders[k].Items # <<>>
    /\ \A w \in Workers :
          req[w].op = "create" /\ Persists(w) # <<>>
              => IF Persists(w)[1].ok
                 THEN /\ Len(orders) = Len(loc[w].status0) + 1
                      /\ orders[Len(orders)] = BuildOrder(req[w], loc[w])
                      /\ Len(orders[Len(orders)].Items) = Len(req[w].Items)
                      /\ pc[w] = "done" /\ resp[w].order # NoOrder
                            => /\ resp[w].order = orders[Len(orders)]
                               /\ Len(resp[w].order.Items) = Len(req[w].Items)
                 ELSE /\ Len(orders) = Len(loc[w].status0)
                      /\ NothingPersisted(w)

\* C29's case: the INSERT of the second item of a two-item order failed;
\* nothing of the order is stored.
C29_SecondItemInsertFailed ==
    /\ req[1].op = "create" /\ Len(req[1].Items) = 2
    /\ Persists(1) # <<>>
    /\ Persists(1)[1].err = "insert item 2"
    /\ orders = <<>>

\* Sum of the deltas of the first k calls of slot w that are AdjustStock
\* calls on product p and reported success.
RECURSIVE SumOk(_, _, _)
SumOk(w, p, k) ==
    IF k = 0 THEN 0
    ELSE SumOk(w, p, k - 1)
           + (IF IsAdjust(calls[w][k]) /\ calls[w][k].id = p /\ calls[w][k].ok
              THEN calls[w][k].delta ELSE 0)

RECURSIVE SumOkAll(_, _)
SumOkAll(p, w) == IF w = 0 THEN 0 ELSE SumOkAll(p, w - 1) + SumOk(w, p, Len(calls[w]))

RECURSIVE CreatedBy(_)
CreatedBy(w) ==
    IF w = 0 THEN 0
    ELSE CreatedBy(w - 1) + (IF Persists(w) # <<>> /\ Persists(w)[1].ok THEN 1 ELSE 0)

\* The stock of P1 when the two requests arrived: the seeded stock less the
\* units of the order stored before them, if one was.
ConcStartStock ==
    IF Len(orders) > CreatedBy(NumWorkers)
    THEN InitStock - orders[1].Items[1].Quantity
    ELSE InitStock

\* C30: no stock update is lost when requests interleave: when the
\* requests in flight have all answered and no collaborator call failed, the
\* stock of the product equals its initial stock plus the sum of the deltas
\* of the AdjustStock calls that reported success.
C30_NoLostStockUpdate ==
    (\A w \in Workers : pc[w] \in {"idle", "done"}) /\ envEvents = MaxEnvEvents - 1
        => catalog["P1"].stock = ConcStartStock + SumOkAll("P1", NumWorkers)

\* The units of product p in the line items of the first k stored orders.
RECURSIVE PersistedQty(_, _)
PersistedQty(p, k) ==
    IF k = 0 THEN 0
    ELSE PersistedQty(p, k - 1) + QtyOf(orders[k].Items, p, Len(orders[k].Items))

\* C31: stock is never oversold: while only create requests run, whatever
\* their number and interleaving, the units of a product over all persisted
\* orders never exceed the product's initial stock.
C31_NeverOversold ==
    (\A w \in Workers : req[w].op # "update")
        => PersistedQty("P1", Len(orders)) <= InitStock

\* C32: over any sequence of status requests on the one order stored,
\* executed one at a time with no collaborator failure, the quantity given
\* back to stock never exceeds the quantity the order reserved when it was
\* created: no product's stock rises above its initial stock.
C32_RestockedAtMostOnce ==
    envEvents = 0 => \A p \in Products : catalog[p].stock <= InitStockOf(p)

\* C33: two requests that cancel the same pending order concurrently
\* restock its items only once: when both have answered, with no
\* collaborator failure, the product's stock has risen by the order's
\* quantity exactly once, to the stock it had before the order was created.
C33_ConcurrentCancelRestocksOnce ==
    (\A w \in Workers : CancelsPending(w)) /\ envEvents = MaxEnvEvents - 1
        => catalog["P1"].stock = InitStock

\* C34: every return path of create that reports a failure after at least
\* one reservation was logged (an invalid item later in the list, a failed
\* fetch, an unparsable price, a failed reservation, a failed repository
\* write) has first attempted the compensating AdjustStock(+quantity) for
\* every entry of the reservation log.
C34_EveryFailurePathCompensates ==
    \A w \in Workers :
        AtDone(w, "create") /\ resp[w].code >= 400 /\ loc[w].toRollback # <<>>
            => CompensatedInReverse(w)

\* C35: whenever a status request answers with a failure (order not found,
\* order gone before the status write, status write error), the stock of
\* every product and the stored status of every order are what they were
\* before the request.
C35_FailedUpdateChangesNothing ==
    \A w \in Workers :
        AtDone(w, "update") /\ resp[w].code >= 400
            => StockAsBefore(w) /\ NothingPersisted(w)

\* The units of product p held by the first k stored orders that are pending
\* or paid.
RECURSIVE HeldQty(_, _)
HeldQty(p, k) ==
    IF k = 0 THEN 0
    ELSE HeldQty(p, k - 1)
           + (IF orders[k].Status \in {"pending", "paid"}
              THEN QtyOf(orders[k].Items, p, Len(orders[k].Items)) ELSE 0)

\* C36: stock conservation: after any sequence of create and status
\* requests run one at a time to completion, with no collaborator failure and
\* no other writer of the catalog, each product's stock plus the units of it
\* held by pending or paid orders equals its initial stock.
C36_StockConservation ==
    envEvents = 0 /\ pc[1] \in {"idle", "done"}
        => \A p \in Products : catalog[p].stock + HeldQty(p, Len(orders)) = InitStockOf(p)

\* Slot w takes a step of Ext.AdjustStock: its fetch or its PUT.
AdjustStockStep(w) ==
    /\ pc[w] \in {"adjGet", "adjPut"}
    /\ pc'[w] # pc[w] \/ calls'[w] # calls[w]

\* C37: AdjustStock changes nothing in the catalog but the stock of the
\* product it names: over every step of a successful or failed AdjustStock,
\* no product appears or disappears, every product keeps its name,
\* description and price, and every other product keeps its stock.
C37_AdjustStockTouchesOnlyStock ==
    [][\A w \in Workers :
          AdjustStockStep(w)
              => /\ DOMAIN catalog' = DOMAIN catalog
                 /\ \A p \in DOMAIN catalog :
                       /\ catalog'[p].name = catalog[p].name
                       /\ catalog'[p].description = catalog[p].description
                       /\ catalog'[p].price = catalog[p].price
                       /\ p # AdjustTarget(req[w], loc[w]).ProductID
                             => catalog'[p].stock = catalog[p].stock]_vars

\* C37's case: after a repricing of P1, a request reserved units of P1 with
\* success and saw a later reservation fail; P1 has its new price, its name
\* and its description, and less stock.
C37_ReservedAfterRepricing ==
    /\ AtDone(1, "create") /\ FailedReserve(1)
    /\ Len(Reservations(1)) = 2
    /\ Reservations(1)[1].id = "P1" /\ Reservations(1)[1].applied
    /\ catalog["P1"].price # InitPrice("P1")
    /\ catalog["P1"].name = InitName("P1")
    /\ catalog["P1"].description = InitDescription("P1")
    /\ catalog["P1"].stock < InitStockOf("P1")

\* The calls of the request in slot w stay within what its item list
\* allows: for create one identity check, a fetch, a reservation and a
\* compensation per item, one write and one read back; for a status request
\* one read, a restock per item of the order, one write and one read back.
CallsBounded(w) ==
    /\ req[w].op = "create" => Len(calls[w]) <= 3 * Len(req[w].Items) + 3
    /\ req[w].op = "update" => Len(calls[w]) <= Len(loc[w].o.Items) + 3

\* C38: every create and every status request terminates with exactly one
\* response, provided each collaborator call it issues returns: its calls
\* are bounded by the length of the item list, a response is written exactly
\* when the handler returns, and a request in progress always reaches its
\* response.
C38_RequestsTerminate ==
    /\ [](\A w \in Workers :
            /\ CallsBounded(w)
            /\ resp[w] # NoResp <=> pc[w] = "done")
    /\ \A w \in Workers : (pc[w] \notin {"idle", "done"}) ~> (pc[w] = "done")

\* C38's case: the longest run of a create request: two items fetched and
\* reserved, the repository write failed, both reservations compensated, one
\* response.
C38_LongestCreate ==
    /\ AtDone(1, "create") /\ PersistFailed(1)
    /\ Len(req[1].Items) = 2 /\ Len(calls[1]) = 8
    /\ resp[1].code = 500

\* Sum over the first k repository calls of slot w of what the successful
\* ones on product p added to its stock.
RECURSIVE StockDelta(_, _, _)
StockDelta(w, p, k) ==
    IF k = 0 THEN 0
    ELSE StockDelta(w, p, k - 1)
           + (IF calls[w][k].id = p /\ calls[w][k].err = ""
              THEN IF calls[w][k].op = "IncrementStock" THEN calls[w][k].qty
                   ELSE 0 - calls[w][k].qty
              ELSE 0)

RECURSIVE StockDeltaAll(_, _)
StockDeltaAll(p, w) ==
    IF w = 0 THEN 0 ELSE StockDeltaAll(p, w - 1) + StockDelta(w, p, Len(calls[w]))

\* C39: DecrementStock is an atomic conditional decrement: when its UPDATE
\* finds stock >= qty it lowers the stock by qty and returns what remains;
\* otherwise it changes nothing and returns ErrInsufficientStock when the
\* product exists and ErrNotFound when it does not; under any interleaving
\* of concurrent decrements and increments the stock stays >= 0 and equals
\* the initial stock plus the successful increments minus the successful
\* decrements.
C39_AtomicConditionalDecrement ==
    /\ \A p \in Products :
          /\ catalog[p].stock >= 0
          /\ catalog[p].stock = InitStockOf(p) + StockDeltaAll(p, NumWorkers)
    /\ \A w \in Workers : \A k \in 1..Len(calls[w]) :
          LET c == calls[w][k]
          IN  c.op = "DecrementStock" /\ c.err # "db error"
                  => IF c.before >= c.qty
                     THEN c.err = "" /\ c.remaining = c.before - c.qty
                     ELSE c.err = IF c.id \in Products THEN "insufficient stock"
                                  ELSE "product not found"

====
